---- MODULE Spec2Model ----
(***************************************************************************)
(* Resilient Overpass query client (OverpassClient.query), its QueryCache  *)
(* and the rotating server index, the input validation and the get_buildings *)
(* tool in front of it, and the OSM to GeoJSON converter behind it, as       *)
(* implemented in                                                            *)
(*   src/src/utils/validator.js  (validation, lines 1-105; cached client,    *)
(*                                lines 236-451)                             *)
(*   src/src/utils/overpass.js   (ApiLogger, lines 240-445; QueryCache,      *)
(*                                lines 446-571)                             *)
(*   src/src/tools/buildings.js  (getBuildings)                              *)
(*   src/unnamed/part_000        (osmToGeoJSON, lines 98-270)                *)
(*                                                                           *)
(* JavaScript runs the client on one event loop: a query() invocation runs   *)
(* without interruption from one await to the next.  Each action below is    *)
(* one such uninterrupted run: the start of a call up to its first await,    *)
(* the continuation after a response, the continuation after a backoff       *)
(* sleep, a firing of the cleanup timer.                                     *)
(*                                                                           *)
(* Time is counted in units of the cleanup interval (5 minutes), so that     *)
(* cleanupInterval = 1 and ttl = 3 (15 minutes).                             *)
(*                                                                           *)
(* The specifications share the actions:                                     *)
(*   Spec       two callers interleave their calls on one client;            *)
(*   SeqSpec    one caller at a time, the clock advances, the cleanup        *)
(*              timer fires, the cache is cleared or destroyed;              *)
(*   CacheSpec  a QueryCache used directly through set and get;              *)
(*   ToolSpec   get_buildings calls, one at a time, on one client;           *)
(*   BoxSpec    validateBoundingBox applied to drawn coordinates;            *)
(*   ConvSpec   osmToGeoJSON applied to a drawn response;                    *)
(*   SweepSpec  a QueryCache whose clock and cleanup timer keep running;     *)
(*   ErrSpec    one caller, every response the transport can produce;        *)
(*   LoggedSpec one caller, the ApiLogger counters followed.                 *)
(***************************************************************************)
EXTENDS Integers, Sequences, FiniteSets, TLC

\* ------------------------------------------------------------------ bounds

\* The clock stops advancing at MaxTime.
MaxTime == 4

\* query() is called at most MaxCalls times.
MaxCalls == 2

\* The backoff arithmetic is examined for the attempt indexes 0 .. MaxIndex.
MaxIndex == 4

\* query() is called at most MaxLoggedCalls times where the telemetry is
\* examined.
MaxLoggedCalls == 3

\* ------------------------------------------------------- program constants

\* QueryCache options passed by OverpassClient's constructor.  maxSize is 100
\* in the source; the model runs the cache with a capacity of 2 so that the
\* capacity is reached with the three queries of Queries.
maxSize == 2
ttl == 3
cleanupInterval == 1

\* Backoff arithmetic of the catch block (milliseconds).
BackoffBase == 5000
BackoffCap == 30000
ServerErrorDelay == 2000

\* Coordinates are counted in hundredths of a degree: the bounds 180 and 90
\* of validateBoundingBox are 18000 and 9000, and the default maxArea of
\* validateAreaSize, 0.001 square degrees, is 10.
LonLimit == 18000
LatLimit == 9000
maxArea == 10

\* minimum and maximum of the limit property in the tools' input schema.
limitMinimum == 1
limitMaximum == 10000

\* this.servers: the Host names of the three endpoints, in order.
servers == <<"overpass-api.de", "lz4.overpass-api.de", "overpass.kumi.systems">>

ServerIndexes == 0 .. (Len(servers) - 1)

\* ------------------------------------------------------------------ inputs

\* Callers that may have a query() invocation in flight at the same time.
Callers == {"a", "b"}

\* Query strings.
Queries == {"q1", "q2", "q3"}

\* Response bodies an endpoint may send with status 200: three JSON texts and
\* two texts that are not JSON.
Bodies == {"null", "{elements:[]}", "{elements:[n1]}", "<html>", "<429>"}

\* Response bodies an endpoint or a proxy in front of it may send with another
\* status.
ErrorBodies == {"", "429 Too Many Requests", "500 Internal Server Error"}

\* The HTTP statuses other than 200 an attempt may end with.
ErrorStatuses == {404, 429, 500, 502, 503, 504}

\* Parsed payloads handed to the cache directly.
Payloads == {"null", "elements:0", "elements:1"}

\* Longitudes and latitudes given to validateBoundingBox: below, at and above
\* the ends of the valid ranges, and three values close together.
Lons == {-18001, -18000, 0, 2, 5, 18000, 18001}

Lats == {-9001, -9000, 0, 2, 5, 9000, 9001}

\* An optional argument or property is <<v>> when it has the value v and
\* Undefined when it is missing (JavaScript undefined).
Undefined == <<>>

\* Arguments of a get_buildings call.  Bounding boxes: a small one, one large
\* enough for the area warning, an inverted one, one with maxLon out of
\* range.  Limits: none, below the minimum, inside the range, above the
\* maximum.
ToolBoxes ==
    {[minLon |-> 0, minLat |-> 0, maxLon |-> 2, maxLat |-> 2],
     [minLon |-> 0, minLat |-> 0, maxLon |-> 5, maxLat |-> 5],
     [minLon |-> 5, minLat |-> 0, maxLon |-> 0, maxLat |-> 5],
     [minLon |-> 0, minLat |-> 0, maxLon |-> 18001, maxLat |-> 2]}

ToolLimits == {Undefined, <<0>>, <<5>>, <<15000>>}

BuildingTypes == {Undefined, <<"residential">>, <<"castle">>}

\* JavaScript null: what JSON.parse("null") yields and what cache.get returns
\* for a missing or expired entry.
JsNull == "null"

NoValue == "none"

VARIABLES
    currentServerIndex, \* this.currentServerIndex
    cache,              \* QueryCache.cache: the Map, entries in insertion order
    cleanupTimer,       \* QueryCache.cleanupTimer: "active" or "null"
    now,                \* Date.now()
    sweepDue,           \* the interval has elapsed and the timer callback is queued
    call,               \* per caller: the locals of its query() invocation
    hist,               \* per caller: what the invocation did (history)
    lastEvicted,        \* history: the key the latest step evicted, or NoValue
    lastDone,           \* history: the call that completed last
    started,            \* history: number of query() calls made so far
    ret,                \* direct cache use: what the latest step's get returned
    lastSet,            \* direct cache use: per query, the last value set and still resident
    tool,               \* the latest tool call: its arguments, its query, its outcome
    box,                \* validateBoundingBox: the latest arguments and the errors returned
    conv,               \* osmToGeoJSON: the latest argument and the outcome
    lastOp,             \* history: the cache operation the latest step was
    lastSwept,          \* history: the keys the latest firing of the timer removed
    stats               \* apiLogger.stats: the counters of the shared ApiLogger

vars == <<currentServerIndex, cache, cleanupTimer, now, sweepDue, call, hist,
          lastEvicted, lastDone, started, ret, lastSet, tool, box, conv, lastOp,
          lastSwept, stats>>

\* --------------------------------------------------------------- QueryCache

\* crypto.createHash('sha256').update(query).digest('hex'): a digest of the
\* exact query text; distinct texts give distinct digests.
\* Variant: a digest that does not depend on the query text.
generateKey_Truncated(query) == <<"sha256", "">>

generateKey(query) == <<"sha256", query>>

\* The elements of a sequence.
Range(seq) == {seq[k] : k \in 1 .. Len(seq)}

\* Map.has / position of a key in the Map's insertion order (0: absent).
MapIndex(m, key) ==
    IF \E n \in 1 .. Len(m) : m[n].key = key
    THEN CHOOSE n \in 1 .. Len(m) : m[n].key = key
    ELSE 0

MapHas(m, key) == MapIndex(m, key) # 0

\* Map.delete
MapDelete(m, key) == SelectSeq(m, LAMBDA e : e.key # key)

\* Variant: a set that adds an entry whether or not the key is present.
MapSet_Appends(m, key, e) == Append(m, e)

\* Map.set: an existing key keeps its position, a new key goes last.
MapSet(m, key, e) ==
    IF MapHas(m, key)
    THEN [m EXCEPT ![MapIndex(m, key)] = e]
    ELSE Append(m, e)

\* Variant: a get that measures an entry's age from its last access.
CacheGet_SlidingExpiry(m, query, t) ==
    LET key == generateKey(query)
        n == MapIndex(m, key)
    IN  IF n = 0
        THEN [cache |-> m, value |-> JsNull]
        ELSE IF t - m[n].lastAccessed > ttl
             THEN [cache |-> MapDelete(m, key), value |-> JsNull]
             ELSE [cache |-> [m EXCEPT ![n].lastAccessed = t],
                   value |-> m[n].data]

\* QueryCache.get: the cache after the call and the value returned.
CacheGet(m, query, t) ==
    LET key == generateKey(query)
        n == MapIndex(m, key)
    IN  IF n = 0
        THEN [cache |-> m, value |-> JsNull]
        ELSE IF t - m[n].timestamp > ttl
             THEN [cache |-> MapDelete(m, key), value |-> JsNull]
             ELSE [cache |-> [m EXCEPT ![n].lastAccessed = t],
                   value |-> m[n].data]

\* Variant: a selection by the oldest insertion timestamp.
OldestKey_ByTimestamp(m) ==
    LET n == CHOOSE a \in 1 .. Len(m) :
                 \A b \in 1 .. Len(m) :
                     \/ m[a].timestamp < m[b].timestamp
                     \/ (m[a].timestamp = m[b].timestamp /\ a <= b)
    IN  m[n].key

\* QueryCache.evictOldest: the key the loop selects, the first entry in
\* insertion order whose lastAccessed is strictly smaller than all before it.
OldestKey(m) ==
    LET n == CHOOSE a \in 1 .. Len(m) :
                 \A b \in 1 .. Len(m) :
                     \/ m[a].lastAccessed < m[b].lastAccessed
                     \/ (m[a].lastAccessed = m[b].lastAccessed /\ a <= b)
    IN  m[n].key

\* Variant: an eviction that deletes nothing.
evictOldest_KeepsAll(m) == m

evictOldest(m) == IF Len(m) = 0 THEN m ELSE MapDelete(m, OldestKey(m))

\* QueryCache.set
CacheSet(m, query, data, t) ==
    LET key == generateKey(query)
        m1 == IF Len(m) >= maxSize /\ ~MapHas(m, key) THEN evictOldest(m) ELSE m
    IN  MapSet(m1, key, [key |-> key, data |-> data,
                         timestamp |-> t, lastAccessed |-> t])

\* The key QueryCache.set evicts, NoValue when it evicts nothing.
EvictedBySet(m, query) ==
    IF Len(m) >= maxSize /\ ~MapHas(m, generateKey(query)) /\ Len(m) > 0
    THEN OldestKey(m)
    ELSE NoValue

\* Variant: a cleanup that measures an entry's age from its last access.
cleanup_ByLastAccessed(m, t) == SelectSeq(m, LAMBDA e : ~(t - e.lastAccessed > ttl))

\* QueryCache.cleanup
cleanup(m, t) == SelectSeq(m, LAMBDA e : ~(t - e.timestamp > ttl))

\* QueryCache.clear
clear(m) == <<>>

\* ------------------------------------------------------------ httpsRequest

\* What one endpoint attempt can end with: an HTTP response (status, body),
\* or a transport failure (the 60 s timeout, a refused connection).
Responses ==
    [kind : {"http"}, status : {200}, body : Bodies]
    \cup [kind : {"http"}, status : ErrorStatuses, body : ErrorBodies]
    \cup [kind : {"timeout", "refused"}, status : {0}, body : {""}]

\* JSON.parse: the parsed value, or "SyntaxError".
JSONparse(body) ==
    CASE body = "null" -> JsNull
      [] body = "{elements:[]}" -> "elements:0"
      [] body = "{elements:[n1]}" -> "elements:1"
      [] OTHER -> "SyntaxError"

\* An Error's message, kept as its leading text, the status it quotes and the
\* text it goes on with.
ErrorMessage(text, status, detail) ==
    [text |-> text, status |-> status, detail |-> detail]

NoError == ErrorMessage("", 0, "")

\* The message of the SyntaxError JSON.parse throws: V8 quotes the position
\* of the offending character or an excerpt of the text around it; "<429>"
\* stands for a body whose message has the digits 429 in it.
SyntaxErrorMessage(body) == IF body = "<429>" THEN "<429>" ELSE "Unexpected token"

\* The status numbers the texts of the model have in them.
NumbersIn(text) ==
    CASE text \in {"429 Too Many Requests", "<429>"} -> {429}
      [] text = "500 Internal Server Error" -> {500}
      [] OTHER -> {}

\* The settlement of the promise httpsRequest returns.
httpsRequest(resp) ==
    IF resp.kind = "timeout"
    THEN [ok |-> FALSE, value |-> NoValue,
          error |-> ErrorMessage("Request timeout", 0, "")]
    ELSE IF resp.kind = "refused"
    THEN [ok |-> FALSE, value |-> NoValue,
          error |-> ErrorMessage("connect ECONNREFUSED", 0, "")]
    ELSE IF resp.status = 200
         THEN IF JSONparse(resp.body) # "SyntaxError"
              THEN [ok |-> TRUE, value |-> JSONparse(resp.body), error |-> NoError]
              ELSE [ok |-> FALSE, value |-> NoValue,
                    error |-> ErrorMessage("Failed to parse response", 0,
                                           SyntaxErrorMessage(resp.body))]
         ELSE [ok |-> FALSE, value |-> NoValue,
               error |-> ErrorMessage("HTTP", resp.status, resp.body)]

\* error.message.includes(s) for the status texts the catch block looks for:
\* the status of an 'HTTP <status>: <body>' message, or a number anywhere in
\* the rest of the message.
MessageIncludes(msg, s) ==
    \/ msg.text = "HTTP" /\ msg.status = s
    \/ s \in NumbersIn(msg.detail)

\* JavaScript truthiness of a parsed payload: null is falsy, objects are truthy.
Truthy(v) == v # JsNull

\* -------------------------------------------------------- input validation

\* Variant: an ordering check that lets an empty box through.
validateBoundingBox_AllowsEmpty(minLon, minLat, maxLon, maxLat) ==
    (IF minLon < -LonLimit \/ minLon > LonLimit
     THEN <<"minLon must be a number between -180 and 180">> ELSE <<>>)
    \o (IF minLat < -LatLimit \/ minLat > LatLimit
        THEN <<"minLat must be a number between -90 and 90">> ELSE <<>>)
    \o (IF maxLon < -LonLimit \/ maxLon > LonLimit
        THEN <<"maxLon must be a number between -180 and 180">> ELSE <<>>)
    \o (IF maxLat < -LatLimit \/ maxLat > LatLimit
        THEN <<"maxLat must be a number between -90 and 90">> ELSE <<>>)
    \o (IF minLon > maxLon
        THEN <<"minLon must be less than maxLon">> ELSE <<>>)
    \o (IF minLat > maxLat
        THEN <<"minLat must be less than maxLat">> ELSE <<>>)

\* validateBoundingBox: the errors array, in the order of the pushes.
validateBoundingBox(minLon, minLat, maxLon, maxLat) ==
    (IF minLon \notin Int \/ minLon < -LonLimit \/ minLon > LonLimit
     THEN <<"minLon must be a number between -180 and 180">> ELSE <<>>)
    \o (IF minLat \notin Int \/ minLat < -LatLimit \/ minLat > LatLimit
        THEN <<"minLat must be a number between -90 and 90">> ELSE <<>>)
    \o (IF maxLon \notin Int \/ maxLon < -LonLimit \/ maxLon > LonLimit
        THEN <<"maxLon must be a number between -180 and 180">> ELSE <<>>)
    \o (IF maxLat \notin Int \/ maxLat < -LatLimit \/ maxLat > LatLimit
        THEN <<"maxLat must be a number between -90 and 90">> ELSE <<>>)
    \o (IF minLon >= maxLon
        THEN <<"minLon must be less than maxLon">> ELSE <<>>)
    \o (IF minLat >= maxLat
        THEN <<"minLat must be less than maxLat">> ELSE <<>>)

\* validateAreaSize with the default maxArea.
validateAreaSize(minLon, minLat, maxLon, maxLat) ==
    LET area == (maxLon - minLon) * (maxLat - minLat)
    IN  [area |-> area,
         warnings |-> IF area > maxArea THEN <<"Large area detected">> ELSE <<>>]

\* Variant: a validation that reports bounding box errors as warnings.
validateCommonInputs_WarnsOnly(args) ==
    [threw |-> FALSE, error |-> <<>>,
     value |-> [area |-> 0,
                warnings |-> validateBoundingBox(args.minLon, args.minLat,
                                                 args.maxLon, args.maxLat)]]

\* validateCommonInputs: it throws 'Invalid bounding box: ...' (threw, with
\* the errors joined), or returns the object { area, warnings } (value).
validateCommonInputs(args) ==
    LET bboxErrors == validateBoundingBox(args.minLon, args.minLat,
                                          args.maxLon, args.maxLat)
    IN  IF Len(bboxErrors) > 0
        THEN [threw |-> TRUE, error |-> <<"Invalid bounding box">> \o bboxErrors,
              value |-> [area |-> 0, warnings |-> <<>>]]
        ELSE [threw |-> FALSE, error |-> <<>>,
              value |-> validateAreaSize(args.minLon, args.minLat,
                                         args.maxLon, args.maxLat)]

\* validateFilter for a string value.
validateFilter(value, allowedValues) ==
    IF value \in allowedValues
    THEN [isValid |-> TRUE, error |-> <<>>]
    ELSE [isValid |-> FALSE, error |-> <<"Invalid filter value", value>>]

\* object.name: the property's value, undefined when the object has none.
Property(object, name) ==
    IF name \in DOMAIN object THEN <<object[name]>> ELSE Undefined

\* A destructuring default: name = value in a pattern.
Default(v, value) == IF v = Undefined THEN value ELSE v[1]

\* JavaScript truthiness of an optional number: undefined and 0 are falsy.
TruthyNumber(v) == v # Undefined /\ v[1] # 0

\* --------------------------------------------------------------- converter

\* A JavaScript null where an object is expected.
NullObject == [null |-> TRUE]

\* {}: an object without properties.
EmptyObject == <<>>

\* An element of an Overpass response; a property the element lacks is
\* Undefined.
Element(type, id, lon, lat, nodeIds, tags, members) ==
    [type |-> type, id |-> id, lon |-> lon, lat |-> lat, nodes |-> nodeIds,
     tags |-> tags, members |-> members]

\* Variant: a node map that stores [lat, lon].
CollectNodes_LatLon(elements) ==
    LET at(i) == {k \in 1 .. Len(elements) :
                     elements[k].type = "node" /\ elements[k].id = i}
        ids == {elements[k].id : k \in {j \in 1 .. Len(elements) :
                                           elements[j].type = "node"}}
    IN  [i \in ids |->
            LET k == CHOOSE j \in at(i) : \A l \in at(i) : l <= j
            IN  <<elements[k].lat, elements[k].lon>>]

\* Step 1 of osmToGeoJSON: nodes[element.id] = [element.lon, element.lat]
\* for every node element, a later one replacing an earlier one of the same id.
CollectNodes(elements) ==
    LET at(i) == {k \in 1 .. Len(elements) :
                     elements[k].type = "node" /\ elements[k].id = i}
        ids == {elements[k].id : k \in {j \in 1 .. Len(elements) :
                                           elements[j].type = "node"}}
    IN  [i \in ids |->
            LET k == CHOOSE j \in at(i) : \A l \in at(i) : l <= j
            IN  <<elements[k].lon, elements[k].lat>>]

\* nodeIds.map(nodeId => nodes[nodeId]).filter(coord => coord !== undefined)
ResolveNodes(nodeIds, nodes) ==
    LET known == SelectSeq(nodeIds, LAMBDA i : i \in DOMAIN nodes)
    IN  [k \in 1 .. Len(known) |-> nodes[known[k]]]

\* case 'node'
NodeGeometry(element) ==
    IF element.lon # Undefined /\ element.lat # Undefined
    THEN [type |-> "Point", coordinates |-> <<element.lon, element.lat>>]
    ELSE NullObject

\* Variant: a way becomes a Polygon on the count of its coordinates alone.
WayGeometry_IgnoresClosure(element, nodes) ==
    IF element.nodes # Undefined /\ Len(element.nodes[1]) > 0
    THEN LET coordinates == ResolveNodes(element.nodes[1], nodes)
         IN  IF Len(coordinates) > 0
             THEN IF Len(coordinates) > 3
                  THEN [type |-> "Polygon", coordinates |-> <<coordinates>>]
                  ELSE [type |-> "LineString", coordinates |-> coordinates]
             ELSE NullObject
    ELSE NullObject

\* case 'way'
WayGeometry(element, nodes) ==
    IF element.nodes # Undefined /\ Len(element.nodes[1]) > 0
    THEN LET coordinates == ResolveNodes(element.nodes[1], nodes)
         IN  IF Len(coordinates) > 0
             THEN LET isClosed == element.nodes[1][1]
                                      = element.nodes[1][Len(element.nodes[1])]
                  IN  IF isClosed /\ Len(coordinates) > 3
                      THEN [type |-> "Polygon", coordinates |-> <<coordinates>>]
                      ELSE [type |-> "LineString", coordinates |-> coordinates]
             ELSE NullObject
    ELSE NullObject

\* The coordinates of the member ways that carry nodes, one sequence per
\* member, empty for a member that is skipped.
MemberCoordinates(members, nodes) ==
    [k \in 1 .. Len(members) |->
        IF members[k].type = "way" /\ members[k].nodes # Undefined
        THEN ResolveNodes(members[k].nodes[1], nodes)
        ELSE <<>>]

\* Variant: a ring counts from 3 coordinates on.
RingsOf_FromThree(members, nodes, role) ==
    LET coords == MemberCoordinates(members, nodes)
        ks == SelectSeq([k \in 1 .. Len(members) |-> k],
                        LAMBDA k : Len(coords[k]) > 2 /\ members[k].role = role)
    IN  [j \in 1 .. Len(ks) |-> coords[ks[j]]]

\* The rings of one role, in member order: the coordinates of the member
\* ways with that role of which more than 3 resolve.
RingsOf(members, nodes, role) ==
    LET coords == MemberCoordinates(members, nodes)
        ks == SelectSeq([k \in 1 .. Len(members) |-> k],
                        LAMBDA k : Len(coords[k]) > 3 /\ members[k].role = role)
    IN  [j \in 1 .. Len(ks) |-> coords[ks[j]]]

RECURSIVE Flatten(_)
Flatten(seqs) ==
    IF seqs = <<>> THEN <<>> ELSE seqs[1] \o Flatten(Tail(seqs))

\* Variant: a chain of the coordinates of every member way.
ChainOf_KeepsSingles(members, nodes) == Flatten(MemberCoordinates(members, nodes))

\* allCoordinates of the boundary branch: the coordinates of the member ways
\* of which more than 1 resolve, one after the other in member order.
ChainOf(members, nodes) ==
    LET coords == MemberCoordinates(members, nodes)
    IN  Flatten([k \in 1 .. Len(members) |->
                    IF Len(coords[k]) > 1 THEN coords[k] ELSE <<>>])

\* convertRelationToGeometry
convertRelationToGeometry(relation, nodes) ==
    IF relation.members = Undefined \/ Len(relation.members[1]) = 0
    THEN NullObject
    ELSE LET members == relation.members[1]
             tagged(name) == relation.tags # Undefined
                                 /\ name \in DOMAIN relation.tags[1]
             outerRings == RingsOf(members, nodes, "outer")
             innerRings == RingsOf(members, nodes, "inner")
             allCoordinates == ChainOf(members, nodes)
         IN  IF /\ tagged("type")
                /\ relation.tags[1]["type"] = "multipolygon"
                /\ Len(outerRings) > 0
             THEN IF Len(outerRings) = 1
                  THEN [type |-> "Polygon",
                        coordinates |-> <<outerRings[1]>> \o innerRings]
                  ELSE [type |-> "MultiPolygon",
                        coordinates |-> [j \in 1 .. Len(outerRings) |->
                                            <<outerRings[j]>>]]
             ELSE IF tagged("boundary") /\ Len(allCoordinates) > 1
                  THEN [type |-> "LineString", coordinates |-> allCoordinates]
                  ELSE NullObject

\* The switch of step 2.
Geometry(element, nodes) ==
    CASE element.type = "node" -> NodeGeometry(element)
      [] element.type = "way" -> WayGeometry(element, nodes)
      [] element.type = "relation" -> convertRelationToGeometry(element, nodes)
      [] OTHER -> NullObject

\* The feature pushed for an element whose geometry was created.
Feature(element, geometry) ==
    [type |-> "Feature",
     id |-> element.type \o "/" \o ToString(element.id),
     properties |-> IF element.tags # Undefined THEN element.tags[1]
                    ELSE EmptyObject,
     geometry |-> geometry]

FeatureCollection(features) == [type |-> "FeatureCollection", features |-> features]

\* osmToGeoJSON(osmData): it throws a TypeError when osmData is null or when
\* an entry of osmData.elements is null (threw), or returns a
\* FeatureCollection (value).
osmToGeoJSON(osmData) ==
    IF osmData = NullObject
    THEN [threw |-> TRUE, value |-> NullObject]
    ELSE IF osmData.elements = Undefined
         THEN [threw |-> FALSE, value |-> FeatureCollection(<<>>)]
         ELSE LET elements == osmData.elements[1]
              IN  IF \E k \in 1 .. Len(elements) : elements[k] = NullObject
                  THEN [threw |-> TRUE, value |-> NullObject]
                  ELSE LET nodes == CollectNodes(elements)
                           made == [k \in 1 .. Len(elements) |->
                               LET geometry == Geometry(elements[k], nodes)
                               IN  IF geometry # NullObject
                                   THEN <<Feature(elements[k], geometry)>>
                                   ELSE <<>>]
                       IN  [threw |-> FALSE,
                            value |-> FeatureCollection(Flatten(made))]

\* ---------------------------------------------------------------- ApiLogger

\* The counters of a new ApiLogger that getStats reports the cache and
\* error figures from.
NewStats ==
    [requests |-> 0, cacheHits |-> 0, cacheMisses |-> 0, errors |-> 0,
     rateLimits |-> 0]

\* query() writes the counters and never reads them; getStats alone reads
\* them.  A specification that does not examine getStats leaves them out:
\* it starts with Hidden, under which the log calls keep stats as it is.
Hidden == [hidden |-> TRUE]

\* logRequestStart
logRequestStart(st) ==
    IF st = Hidden THEN st ELSE [st EXCEPT !.requests = @ + 1]

\* logCacheHit
logCacheHit(st) ==
    IF st = Hidden THEN st ELSE [st EXCEPT !.cacheHits = @ + 1]

\* logCacheMiss
logCacheMiss(st) ==
    IF st = Hidden THEN st ELSE [st EXCEPT !.cacheMisses = @ + 1]

\* logError
logError(st, error) ==
    IF st = Hidden THEN st
    ELSE [st EXCEPT !.errors = @ + 1,
                    !.rateLimits = IF MessageIncludes(error, 429) THEN @ + 1
                                   ELSE @]

\* cache.hitRate of getStats, in tenths of a percent:
\* ((cacheHits / requests) * 100).toFixed(1), or '0%' without requests.
hitRate(st) ==
    IF st.requests > 0
    THEN (2000 * st.cacheHits + st.requests) \div (2 * st.requests)
    ELSE 0

\* ------------------------------------------------------ OverpassClient.query

InFlight == {"request", "sleep"}

Settled == {"returned", "threw"}

Busy(c) == call[c].pc \in InFlight

\* The locals of a query() invocation and its outcome; IdleCall when the
\* caller has no invocation.  pc: "request" (awaiting httpsRequest), "sleep"
\* (awaiting the backoff timer), "returned" / "threw" (the promise of query()
\* has settled and the caller has not resumed yet).
IdleCall ==
    [pc |-> "idle", queryString |-> NoValue, bypassCache |-> FALSE, i |-> 0,
     serverIndex |-> 0, lastError |-> NoError, delay |-> 0,
     result |-> NoValue, thrown |-> NoError]

\* History of an invocation: the endpoints it attempted, in order;
\* currentServerIndex when it was called; whether it has had the client to
\* itself; the data of the live entry the cache held for its query when it
\* was called (NoValue: none); the response it returned, with its endpoint;
\* the errors its attempts were rejected with, in order; whether it has
\* called cache.set, and whether the Map then had an entry for its query.
NoFetch == [server |-> -1, response |-> [kind |-> "none", status |-> 0, body |-> ""]]

IdleHist ==
    [tried |-> <<>>, startPref |-> 0, alone |-> TRUE, found |-> NoValue,
     fetched |-> NoFetch, errors |-> <<>>, stored |-> FALSE,
     overwrote |-> FALSE]

\* History of the call that settled last: how it ended ("hit": returned from
\* the cache, "ok": returned a fetched response, "fail": threw), the endpoint
\* that answered it, and whether it was a failover from the preferred
\* endpoint to the next one.
NoDone == [kind |-> "none", server |-> 0, failover |-> FALSE]

Min(a, b) == IF a < b THEN a ELSE b

\* Math.pow(2, i)
RECURSIVE Pow2(_)
Pow2(n) == IF n <= 0 THEN 1 ELSE 2 * Pow2(n - 1)

\* Variant: a rotation that steps by two.
ServerIndexFor_Stride(idx, k) == (idx + 2 * k) % Len(servers)

\* (this.currentServerIndex + i) % this.servers.length, read at the top of
\* each loop iteration.
ServerIndexFor(idx, k) == (idx + k) % Len(servers)

\* Variant: a delay that grows by the base delay with each attempt.
BackoffTime_Linear(k) == Min(BackoffBase * (k + 1), BackoffCap)

\* Math.min(5000 * Math.pow(2, i), 30000)
BackoffTime(k) == Min(BackoffBase * Pow2(k), BackoffCap)

\* The data of the entry for query that get would serve at time t, if any.
LiveData(m, query, t) ==
    LET n == MapIndex(m, generateKey(query))
    IN  IF n # 0 /\ ~(t - m[n].timestamp > ttl) THEN m[n].data ELSE NoValue

\* No get in the latest step.
NoGet == [query |-> NoValue, value |-> NoValue, age |-> -1,
          expected |-> NoValue, touched |-> FALSE]

\* The latest step was the call name(query) on the QueryCache, or the firing
\* of its timer ("sweep"); NoOp when it was neither.
Op(name, query) == [name |-> name, query |-> query]

NoOp == Op("none", NoValue)

\* No set of the query is resident.
NoSet == [value |-> NoValue, at |-> -1]

\* The entries of lastSet whose key is still in the Map m.
KeepResident(ls, m) ==
    [q \in Queries |-> IF MapHas(m, generateKey(q)) THEN ls[q] ELSE NoSet]

\* No settled call is waiting for its caller to resume.  The caller's
\* continuation is a microtask: it runs before any timer or I/O callback.
Quiet == \A c \in Callers : call[c].pc \notin Settled

\* The for loop of caller c from iteration k on, up to its next await: either
\* the request of iteration k is issued, or the loop is over and the call
\* throws 'All servers failed. Last error: ' + lastError.message.
Loop(c, cl, h, k, others, st) ==
    IF k < Len(servers)
    THEN LET s == ServerIndexFor(currentServerIndex, k)
         IN  /\ call' = [call EXCEPT ![c] =
                   [cl EXCEPT !.pc = "request", !.i = k, !.delay = 0,
                              !.serverIndex = s]]
             /\ hist' = [others EXCEPT ![c] =
                   [h EXCEPT !.tried = Append(h.tried, s)]]
             /\ lastDone' = lastDone
             /\ stats' = logRequestStart(st)
    ELSE /\ call' = [call EXCEPT ![c] =
                   [cl EXCEPT !.pc = "threw", !.i = k, !.delay = 0,
                              !.thrown = cl.lastError]]
         /\ hist' = [others EXCEPT ![c] = h]
         /\ lastDone' = [kind |-> "fail", server |-> 0, failover |-> FALSE]
         /\ stats' = st

\* A new invocation takes the first caller that has none.
FirstFree(c) == \A d \in Callers : call[d].pc = "idle" => c = d \/ c = "a"

\* query(queryString, bypassCache): from the call to the first await, or to
\* the return on a cache hit.
StartQuery(c, queryString, bypassCache) ==
    /\ Quiet
    /\ call[c].pc = "idle"
    /\ FirstFree(c)
    /\ started' = started + 1
    /\ LET got == CacheGet(cache, queryString, now)
           hit == ~bypassCache /\ Truthy(got.value)
           cl == [IdleCall EXCEPT !.queryString = queryString,
                                  !.bypassCache = bypassCache]
           h == [IdleHist EXCEPT
                    !.startPref = currentServerIndex,
                    !.alone = \A d \in Callers \ {c} : ~Busy(d),
                    !.found = LiveData(cache, queryString, now)]
           others == [d \in Callers |->
                        IF Busy(d) THEN [hist[d] EXCEPT !.alone = FALSE]
                        ELSE hist[d]]
           logged == IF bypassCache THEN stats
                     ELSE IF hit THEN logCacheHit(stats)
                     ELSE logCacheMiss(stats)
       IN  /\ cache' = IF bypassCache THEN cache ELSE got.cache
           /\ IF hit
              THEN /\ call' = [call EXCEPT ![c] =
                         [cl EXCEPT !.pc = "returned", !.result = got.value]]
                   /\ hist' = [others EXCEPT ![c] = h]
                   /\ lastDone' = [kind |-> "hit", server |-> 0, failover |-> FALSE]
                   /\ stats' = logged
              ELSE Loop(c, cl, h, 0, others, logged)
    /\ lastSet' = KeepResident(lastSet, cache')
    /\ UNCHANGED <<currentServerIndex, cleanupTimer, now, sweepDue>>
    /\ ret' = NoGet
    /\ lastEvicted' = NoValue
    /\ lastOp' = NoOp
    /\ lastSwept' = {}

\* query() called by a user of the client.
Execute(c, queryString, bypassCache) ==
    /\ started < MaxCalls
    /\ StartQuery(c, queryString, bypassCache)
    /\ UNCHANGED <<tool, box, conv>>

\* query() called by a user of the client whose telemetry is examined.
ExecuteLogged(c, queryString, bypassCache) ==
    /\ started < MaxLoggedCalls
    /\ StartQuery(c, queryString, bypassCache)
    /\ UNCHANGED <<tool, box, conv>>

\* Variant: a success that leaves the index as it is.
RememberServer_Forgets(cl) == currentServerIndex

\* Variant: a success that computes the index anew after the await.
RememberServer_Reread(cl) == ServerIndexFor(currentServerIndex, cl.i)

\* this.currentServerIndex = serverIndex: the index the successful iteration
\* computed before its await.
RememberServer(cl) == cl.serverIndex

\* Variant: a catch block that keeps the first error of the call.
RecordError_KeepsFirst(cl, error) ==
    IF cl.lastError = NoError THEN [cl EXCEPT !.lastError = error] ELSE cl

\* lastError = error
RecordError(cl, error) == [cl EXCEPT !.lastError = error]

\* Variant: a success that stores the response whatever bypassCache says.
StoreResult_Always(m, cl, value, t) == CacheSet(m, cl.queryString, value, t)

\* if (!bypassCache) this.cache.set(queryString, response)
StoreResult(m, cl, value, t) ==
    IF cl.bypassCache THEN m ELSE CacheSet(m, cl.queryString, value, t)

\* The continuation of query() after the awaited httpsRequest settles with
\* the response resp: the success path up to return, or the catch block up
\* to its await (backoff) or on into the next loop iteration.
Respond(c, resp) ==
    /\ Quiet
    /\ call[c].pc = "request"
    /\ LET cl == call[c]
           h == hist[c]
           r == httpsRequest(resp)
       IN  IF r.ok
           THEN /\ currentServerIndex' = RememberServer(cl)
                /\ cache' = StoreResult(cache, cl, r.value, now)
                /\ lastEvicted' = IF cl.bypassCache THEN NoValue
                                  ELSE EvictedBySet(cache, cl.queryString)
                /\ call' = [call EXCEPT ![c] =
                      [cl EXCEPT !.pc = "returned", !.result = r.value]]
                /\ hist' = [hist EXCEPT ![c] =
                      [h EXCEPT !.fetched = [server |-> cl.serverIndex,
                                             response |-> resp],
                                !.stored = ~cl.bypassCache,
                                !.overwrote =
                                    /\ ~cl.bypassCache
                                    /\ MapHas(cache, generateKey(cl.queryString))]]
                /\ lastDone' =
                      [kind |-> "ok", server |-> cl.serverIndex,
                       failover |-> (h.tried = <<h.startPref,
                                                 (h.startPref + 1) % Len(servers)>>)]
                /\ stats' = stats
           ELSE LET failed == RecordError(cl, r.error)
                    hf == [h EXCEPT !.errors = Append(h.errors, r.error)]
                IN  /\ IF MessageIncludes(r.error, 429)
                       THEN /\ call' = [call EXCEPT ![c] =
                                   [failed EXCEPT !.pc = "sleep",
                                                  !.delay = BackoffTime(cl.i)]]
                            /\ hist' = [hist EXCEPT ![c] = hf]
                            /\ stats' = logError(stats, r.error)
                            /\ UNCHANGED lastDone
                       ELSE IF \/ MessageIncludes(r.error, 500)
                               \/ MessageIncludes(r.error, 502)
                               \/ MessageIncludes(r.error, 503)
                            THEN /\ call' = [call EXCEPT ![c] =
                                       [failed EXCEPT !.pc = "sleep",
                                                      !.delay = ServerErrorDelay]]
                                 /\ hist' = [hist EXCEPT ![c] = hf]
                                 /\ stats' = logError(stats, r.error)
                                 /\ UNCHANGED lastDone
                            ELSE Loop(c, failed, hf, cl.i + 1, hist,
                                      logError(stats, r.error))
                    /\ lastEvicted' = NoValue
                    /\ UNCHANGED <<currentServerIndex, cache>>
    /\ lastSet' = KeepResident(lastSet, cache')
    /\ UNCHANGED <<cleanupTimer, now, sweepDue, started>>
    /\ ret' = NoGet
    /\ UNCHANGED <<tool, box, conv>>
    /\ lastOp' = NoOp
    /\ lastSwept' = {}

\* The continuation of query() after a backoff sleep: the next loop
\* iteration, or the throw after the last one.
Wake(c) ==
    /\ Quiet
    /\ call[c].pc = "sleep"
    /\ Loop(c, call[c], hist[c], call[c].i + 1, hist, stats)
    /\ UNCHANGED <<currentServerIndex, cache, cleanupTimer, now, sweepDue, started, lastSet>>
    /\ ret' = NoGet
    /\ lastEvicted' = NoValue
    /\ UNCHANGED <<tool, box, conv>>
    /\ lastOp' = NoOp
    /\ lastSwept' = {}

\* The caller of a settled query() resumes; the invocation is over.
Resume(c) ==
    /\ call[c].pc \in Settled
    /\ call' = [call EXCEPT ![c] = IdleCall]
    /\ hist' = [hist EXCEPT ![c] = IdleHist]
    /\ UNCHANGED <<currentServerIndex, cache, cleanupTimer, now, sweepDue, lastDone, started, lastSet>>
    /\ ret' = NoGet
    /\ lastEvicted' = NoValue
    /\ UNCHANGED <<tool, box, conv>>
    /\ lastOp' = NoOp
    /\ lastSwept' = {}
    /\ UNCHANGED stats

\* ------------------------------------------------------------ get_buildings

\* The latest tool call.  pc: "idle" (none yet), "rejected" (it threw before
\* building its query), "querying" (awaiting overpassClient.query),
\* "answered" (it returned the GeoJSON response), "failed" (it returned the
\* error of its catch block).
IdleTool ==
    [pc |-> "idle", args |-> <<>>, warnings |-> <<>>, error |-> <<>>,
     outStatement |-> NoValue, queryString |-> NoValue, feature_count |-> 0]

allowedBuildingTypes == {"residential", "commercial", "industrial", "public", "all"}

\* The Overpass QL text of getBuildings; coordinates print in hundredths of
\* a degree.
BuildingsQuery(buildingFilter, minLat, minLon, maxLat, maxLon, outStatement) ==
    "[out:json][timeout:180][maxsize:1073741824];(way" \o buildingFilter
    \o "(" \o ToString(minLat) \o "," \o ToString(minLon) \o ","
    \o ToString(maxLat) \o "," \o ToString(maxLon) \o "););"
    \o outStatement \o ">;out skel qt;"

\* normalizedLimit ? `out body ${normalizedLimit};` : 'out body;'
OutStatement(normalizedLimit) ==
    IF TruthyNumber(normalizedLimit)
    THEN "out body " \o ToString(normalizedLimit[1]) \o ";"
    ELSE "out body;"

\* getBuildings(overpassClient, args) without output_path: from the call to
\* the await of overpassClient.query, or to the throw of a failed validation.
GetBuildings(c, args) ==
    /\ Quiet
    /\ tool.pc # "querying"
    /\ call[c].pc = "idle"
    /\ LET building_type == Default(args.building_type, "all")
           validation == validateCommonInputs(args)
           normalizedLimit == Property(validation.value, "normalizedLimit")
           filterValidation == validateFilter(building_type, allowedBuildingTypes)
           buildingFilter == IF building_type # "all"
                             THEN "[\"building\"=\"" \o building_type \o "\"]"
                             ELSE "[\"building\"]"
           outStatement == OutStatement(normalizedLimit)
           queryString == BuildingsQuery(buildingFilter, args.minLat, args.minLon,
                                         args.maxLat, args.maxLon, outStatement)
           rejected == [IdleTool EXCEPT !.pc = "rejected", !.args = args]
       IN  IF validation.threw
           THEN /\ tool' = [rejected EXCEPT !.error = validation.error]
                /\ UNCHANGED <<currentServerIndex, cache, cleanupTimer, now,
                               sweepDue, call, hist, lastEvicted, lastDone,
                               started, ret, lastSet>>
                /\ lastOp' = NoOp
                /\ lastSwept' = {}
                /\ UNCHANGED stats
           ELSE IF ~filterValidation.isValid
                THEN /\ tool' = [rejected EXCEPT
                                    !.warnings = validation.value.warnings,
                                    !.error = filterValidation.error]
                     /\ UNCHANGED <<currentServerIndex, cache, cleanupTimer, now,
                                    sweepDue, call, hist, lastEvicted, lastDone,
                                    started, ret, lastSet>>
                     /\ lastOp' = NoOp
                     /\ lastSwept' = {}
                     /\ UNCHANGED stats
                ELSE /\ tool' = [pc |-> "querying", args |-> args,
                                 warnings |-> validation.value.warnings,
                                 error |-> <<>>, outStatement |-> outStatement,
                                 queryString |-> queryString, feature_count |-> 0]
                     /\ started < MaxCalls
                     /\ StartQuery(c, queryString, FALSE)
    /\ UNCHANGED <<box, conv>>

\* The parsed value a payload of the client stands for.
PayloadObject(payload) ==
    CASE payload = JsNull -> NullObject
      [] payload = "elements:0" -> [elements |-> <<(<<>>)>>]
      [] payload = "elements:1" ->
            [elements |-> <<(<<Element("node", 1, <<0>>, <<0>>, Undefined,
                                       Undefined, Undefined)>>)>>]

\* getBuildings after overpassClient.query settles: the response it returns,
\* the GeoJSON response of createGeoJSONResponse or the error its catch block
\* reports (the error query() threw, or the one osmToGeoJSON threw).
ToolReturn(c) ==
    /\ tool.pc = "querying"
    /\ call[c].pc \in Settled
    /\ tool' =
          IF call[c].pc = "threw"
          THEN [tool EXCEPT !.pc = "failed",
                            !.error = <<"All servers failed. Last error",
                                        call[c].thrown>>]
          ELSE LET geojson == osmToGeoJSON(PayloadObject(call[c].result))
               IN  IF geojson.threw
                   THEN [tool EXCEPT !.pc = "failed", !.error = <<"TypeError">>]
                   ELSE [tool EXCEPT !.pc = "answered",
                                     !.feature_count = Len(geojson.value.features)]
    /\ call' = [call EXCEPT ![c] = IdleCall]
    /\ hist' = [hist EXCEPT ![c] = IdleHist]
    /\ UNCHANGED <<currentServerIndex, cache, cleanupTimer, now, sweepDue, lastDone, started, lastSet>>
    /\ ret' = NoGet
    /\ lastEvicted' = NoValue
    /\ UNCHANGED <<box, conv>>
    /\ lastOp' = NoOp
    /\ lastSwept' = {}
    /\ UNCHANGED stats

\* ------------------------------------------------------ clock, timer, cache

\* Time passes.  The interval timer's callback runs before a further
\* interval elapses.
Tick ==
    /\ Quiet
    /\ now < MaxTime
    /\ ~sweepDue
    /\ now' = now + 1
    /\ sweepDue' = (cleanupTimer = "active" /\ (now + 1) % cleanupInterval = 0)
    /\ UNCHANGED <<currentServerIndex, cache, cleanupTimer, call, hist, lastDone, started, lastSet>>
    /\ ret' = NoGet
    /\ lastEvicted' = NoValue
    /\ UNCHANGED <<tool, box, conv>>
    /\ lastOp' = NoOp
    /\ lastSwept' = {}
    /\ UNCHANGED stats

\* The setInterval callback of the QueryCache constructor: this.cleanup().
Sweep ==
    /\ Quiet
    /\ cleanupTimer = "active"
    /\ sweepDue
    /\ cache' = cleanup(cache, now)
    /\ sweepDue' = FALSE
    /\ lastSet' = KeepResident(lastSet, cache')
    /\ UNCHANGED <<currentServerIndex, cleanupTimer, now, call, hist, lastDone, started>>
    /\ ret' = NoGet
    /\ lastEvicted' = NoValue
    /\ UNCHANGED <<tool, box, conv>>
    /\ lastOp' = Op("sweep", NoValue)
    /\ lastSwept' = {e.key : e \in Range(cache)} \ {e.key : e \in Range(cache')}
    /\ UNCHANGED stats

\* OverpassClient.clearCache -> QueryCache.clear
ClearCache ==
    /\ Quiet
    /\ cache # <<>>
    /\ cache' = clear(cache)
    /\ lastSet' = KeepResident(lastSet, cache')
    /\ UNCHANGED <<currentServerIndex, cleanupTimer, now, sweepDue, call, hist, lastDone, started>>
    /\ ret' = NoGet
    /\ lastEvicted' = NoValue
    /\ UNCHANGED <<tool, box, conv>>
    /\ lastOp' = Op("clear", NoValue)
    /\ lastSwept' = {}
    /\ UNCHANGED stats

\* Variant: a destroy that clears the entries and leaves the timer running.
Destroy_KeepsTimer ==
    /\ Quiet
    /\ cache' = clear(cache)
    /\ lastSet' = KeepResident(lastSet, cache')
    /\ UNCHANGED <<currentServerIndex, cleanupTimer, sweepDue, now, call, hist,
                   lastDone, started>>
    /\ ret' = NoGet
    /\ lastEvicted' = NoValue
    /\ UNCHANGED <<tool, box, conv>>
    /\ lastOp' = Op("destroy", NoValue)
    /\ lastSwept' = {}
    /\ UNCHANGED stats

\* OverpassClient.destroy -> QueryCache.destroy
Destroy ==
    /\ Quiet
    /\ cleanupTimer' = "null"
    /\ sweepDue' = FALSE
    /\ cache' = clear(cache)
    /\ lastSet' = KeepResident(lastSet, cache')
    /\ UNCHANGED <<currentServerIndex, now, call, hist, lastDone, started>>
    /\ ret' = NoGet
    /\ lastEvicted' = NoValue
    /\ UNCHANGED <<tool, box, conv>>
    /\ lastOp' = Op("destroy", NoValue)
    /\ lastSwept' = {}
    /\ UNCHANGED stats

\* ------------------------------------------------------ direct cache use

\* cache.set(query, data) by a user of QueryCache.
Set(query, data) ==
    /\ cache' = CacheSet(cache, query, data, now)
    /\ lastEvicted' = EvictedBySet(cache, query)
    /\ lastSet' = [KeepResident(lastSet, cache') EXCEPT
                      ![query] = [value |-> data, at |-> now]]
    /\ UNCHANGED <<currentServerIndex, cleanupTimer, now, sweepDue, call, hist, lastDone, started>>
    /\ ret' = NoGet
    /\ UNCHANGED <<tool, box, conv>>
    /\ lastOp' = Op("set", query)
    /\ lastSwept' = {}
    /\ UNCHANGED stats

\* cache.get(query) by a user of QueryCache.  ret records the value returned
\* and, for a query whose last set is still resident, the time since that set,
\* the value set, and whether a get has served the entry since.
Get(query) ==
    /\ cache' = CacheGet(cache, query, now).cache
    /\ ret' = IF lastSet[query] = NoSet
              THEN [NoGet EXCEPT !.query = query,
                                 !.value = CacheGet(cache, query, now).value]
              ELSE [query |-> query,
                    value |-> CacheGet(cache, query, now).value,
                    age |-> now - lastSet[query].at,
                    expected |-> lastSet[query].value,
                    touched |-> lastSet[query].at <
                        cache[MapIndex(cache, generateKey(query))].lastAccessed]
    /\ lastSet' = KeepResident(lastSet, cache')
    /\ UNCHANGED <<currentServerIndex, cleanupTimer, now, sweepDue, call, hist, lastDone, started>>
    /\ lastEvicted' = NoValue
    /\ UNCHANGED <<tool, box, conv>>
    /\ lastOp' = Op("get", query)
    /\ lastSwept' = {}
    /\ UNCHANGED stats

\* ----------------------------------------------------- validateBoundingBox

\* No call of validateBoundingBox yet.
NoBox == [args |-> <<>>, errors |-> <<>>, done |-> FALSE]

\* validateBoundingBox(minLon, minLat, maxLon, maxLat) called on the drawn
\* arguments.
ValidateBox ==
    /\ ~box.done
    /\ box.args # <<>>
    /\ box' = [box EXCEPT !.done = TRUE,
                          !.errors = validateBoundingBox(box.args[1], box.args[2],
                                                         box.args[3], box.args[4])]
    /\ UNCHANGED <<currentServerIndex, cache, cleanupTimer, now, sweepDue, call,
                   hist, lastEvicted, lastDone, started, ret, lastSet, tool, conv>>
    /\ lastOp' = NoOp
    /\ lastSwept' = {}
    /\ UNCHANGED stats

\* ------------------------------------------------------------ osmToGeoJSON

\* No call of osmToGeoJSON yet.
NoConv == [osmData |-> NullObject, done |-> FALSE, threw |-> FALSE,
           value |-> NullObject]

\* osmToGeoJSON(osmData) called on the drawn response.
Convert ==
    /\ ~conv.done
    /\ conv' = [conv EXCEPT !.done = TRUE,
                            !.threw = osmToGeoJSON(conv.osmData).threw,
                            !.value = osmToGeoJSON(conv.osmData).value]
    /\ UNCHANGED <<currentServerIndex, cache, cleanupTimer, now, sweepDue, call,
                   hist, lastEvicted, lastDone, started, ret, lastSet, tool, box>>
    /\ lastOp' = NoOp
    /\ lastSwept' = {}
    /\ UNCHANGED stats

\* ------------------------------------------------------------ specification

\* A new OverpassClient with its QueryCache, and no call made.
ClientInit ==
    /\ currentServerIndex = 0
    /\ cache = <<>>
    /\ cleanupTimer = "active"
    /\ now = 0
    /\ sweepDue = FALSE
    /\ call = [c \in Callers |-> IdleCall]
    /\ hist = [c \in Callers |-> IdleHist]
    /\ lastEvicted = NoValue
    /\ lastDone = NoDone
    /\ started = 0
    /\ ret = NoGet
    /\ lastSet = [q \in Queries |-> NoSet]
    /\ tool = IdleTool
    /\ lastOp = NoOp
    /\ lastSwept = {}

Init ==
    /\ ClientInit
    /\ box = NoBox
    /\ conv = NoConv
    /\ stats = Hidden

\* The responses the specifications draw from: a parsed null, a parsed
\* element list, a rate limit (backoff sleep) and a timeout (no sleep).
FewResponses ==
    [kind : {"http"}, status : {200}, body : {"null", "{elements:[]}"}]
    \cup [kind : {"http"}, status : {429}, body : {""}]
    \cup [kind : {"timeout"}, status : {0}, body : {""}]

\* Concurrent callers of one client, within one cleanup interval.
Next ==
    \/ \E c \in Callers, q \in Queries, b \in BOOLEAN : Execute(c, q, b)
    \/ \E c \in Callers, resp \in FewResponses : Respond(c, resp)
    \/ \E c \in Callers : Wake(c)
    \/ \E c \in Callers : Resume(c)
    \/ ClearCache

Spec == Init /\ [][Next]_vars

\* One caller at a time, while the clock advances and the cleanup timer fires.
NextSeq ==
    \/ \E q \in Queries, b \in BOOLEAN : Execute("a", q, b)
    \/ \E resp \in FewResponses : Respond("a", resp)
    \/ Wake("a")
    \/ Resume("a")
    \/ Tick
    \/ Sweep
    \/ ClearCache
    \/ Destroy

SeqSpec == Init /\ [][NextSeq]_vars

\* A QueryCache used directly.
NextCache ==
    \/ \E q \in Queries, v \in Payloads : Set(q, v)
    \/ \E q \in Queries : Get(q)
    \/ Tick
    \/ Sweep
    \/ ClearCache
    \/ Destroy

CacheSpec == Init /\ [][NextCache]_vars

\* A QueryCache that stores one payload, used directly by a process that
\* keeps running: time passes, and the event loop runs the callback of the
\* interval timer once it is due.
NextSweep ==
    \/ \E q \in Queries : Set(q, "elements:1")
    \/ \E q \in Queries : Get(q)
    \/ Tick
    \/ Sweep
    \/ ClearCache
    \/ Destroy

SweepSpec == Init /\ [][NextSweep]_vars /\ WF_vars(Tick) /\ WF_vars(Sweep)

\* The arguments of a get_buildings call.
ToolArgs ==
    {[minLon |-> b.minLon, minLat |-> b.minLat, maxLon |-> b.maxLon,
      maxLat |-> b.maxLat, building_type |-> t, limit |-> l] :
        b \in ToolBoxes, t \in BuildingTypes, l \in ToolLimits}

\* get_buildings calls, one at a time, on one client.
NextTool ==
    \/ \E args \in ToolArgs : GetBuildings("a", args)
    \/ \E resp \in FewResponses : Respond("a", resp)
    \/ Wake("a")
    \/ ToolReturn("a")
    \/ ClearCache

ToolSpec == Init /\ [][NextTool]_vars

\* One caller of query(), one call at a time, and every kind of response.
NextErr ==
    \/ \E b \in BOOLEAN : Execute("a", "q1", b)
    \/ \E resp \in Responses : Respond("a", resp)
    \/ Wake("a")
    \/ Resume("a")

ErrSpec == Init /\ [][NextErr]_vars

\* A new client and a new ApiLogger whose counters are followed.
InitLogged ==
    /\ ClientInit
    /\ box = NoBox
    /\ conv = NoConv
    /\ stats = NewStats

\* One caller of query(), one call at a time, and getStats read after any
\* step.
NextLogged ==
    \/ \E q \in {"q1", "q2"}, b \in BOOLEAN : ExecuteLogged("a", q, b)
    \/ \E resp \in FewResponses : Respond("a", resp)
    \/ Wake("a")
    \/ Resume("a")

LoggedSpec == InitLogged /\ [][NextLogged]_vars

\* validateBoundingBox called once on arguments drawn from Lons and Lats.
InitBox ==
    /\ ClientInit
    /\ box \in [args : Lons \X Lats \X Lons \X Lats, errors : {<<>>}, done : {FALSE}]
    /\ conv = NoConv
    /\ stats = Hidden

NextBox == ValidateBox

BoxSpec == InitBox /\ [][NextBox]_vars

\* The nodes of the responses: the corners of a unit square.
NodeAt(i) ==
    Element("node", i, <<IF i \in {2, 3} THEN 1 ELSE 0>>,
            <<IF i \in {3, 4} THEN 1 ELSE 0>>, Undefined, Undefined, Undefined)

NodeLists == {SelectSeq(<<NodeAt(1), NodeAt(2), NodeAt(3), NodeAt(4)>>,
                        LAMBDA e : e.id \in S) : S \in SUBSET {1, 2, 3, 4}}

\* Node id sequences of way 10: empty, one node, open, closed with three and
\* with four nodes, closed with a node the response lacks inside the
\* sequence, and at its ends.
WayNodeLists ==
    {<<>>, <<1>>, <<1, 2, 3>>, <<1, 2, 3, 1>>, <<1, 2, 3, 4>>, <<1, 2, 3, 4, 1>>,
     <<1, 2, 9, 3, 4, 1>>, <<9, 1, 2, 3, 4, 9>>}

WayLists ==
    {<<>>} \cup
    {<<Element("way", 10, Undefined, Undefined, n, t, Undefined)>> :
        n \in {Undefined} \cup {<<l>> : l \in WayNodeLists},
        t \in {Undefined, <<[building |-> "yes"]>>}}

\* Way 11: closed, three nodes.
InnerWayLists ==
    {<<>>,
     <<Element("way", 11, Undefined, Undefined, <<(<<1, 2, 3, 1>>)>>, Undefined,
               Undefined)>>}

Member(type, ref, role, nodeIds) ==
    [type |-> type, ref |-> ref, role |-> role, nodes |-> nodeIds]

\* Members of relation 30: none, an empty list, ways 10 and 11 by reference
\* (as Overpass sends them), the same with their node ids inline, two outer
\* ways inline, two outer ways and an inner way inline.
RelationMembers ==
    {Undefined,
     <<(<<>>)>>,
     <<(<<Member("way", 10, "outer", Undefined),
          Member("way", 11, "inner", Undefined)>>)>>,
     <<(<<Member("way", 10, "outer", <<(<<1, 2, 3, 4, 1>>)>>),
          Member("way", 11, "inner", <<(<<1, 2, 3, 1>>)>>)>>)>>,
     <<(<<Member("way", 10, "outer", <<(<<1, 2, 3, 4, 1>>)>>),
          Member("way", 11, "outer", <<(<<1, 2, 3, 1>>)>>)>>)>>,
     <<(<<Member("way", 10, "outer", <<(<<1, 2, 3, 4, 1>>)>>),
          Member("way", 12, "inner", <<(<<1, 3, 4, 1>>)>>),
          Member("way", 11, "outer", <<(<<1, 2, 3, 1>>)>>)>>)>>}

RelationTags ==
    {Undefined, <<[type |-> "multipolygon"]>>, <<[boundary |-> "administrative"]>>,
     <<[type |-> "multipolygon", boundary |-> "administrative"]>>,
     <<[type |-> "route"]>>}

RelationLists ==
    {<<>>} \cup
    {<<Element("relation", 30, Undefined, Undefined, Undefined, t, m)>> :
        t \in RelationTags, m \in RelationMembers}

\* A further entry: none, a null, a tagged node without coordinates.
ExtraLists ==
    {<<>>, <<NullObject>>,
     <<Element("node", 5, Undefined, Undefined, Undefined,
               <<[name |-> "x"]>>, Undefined)>>}

\* Element lists: the nodes before or after the ways and the relation.
ElementLists ==
    {IF nodesFirst THEN ns \o w \o iw \o r \o x ELSE w \o iw \o r \o ns \o x :
        ns \in NodeLists, w \in WayLists, iw \in InnerWayLists,
        r \in RelationLists, x \in ExtraLists, nodesFirst \in BOOLEAN}

\* Parsed responses: null, an object without elements, an element list.
OsmResponses ==
    {NullObject, [elements |-> Undefined]}
    \cup {[elements |-> <<l>>] : l \in ElementLists}

\* osmToGeoJSON called once on a drawn response.
InitConv ==
    /\ ClientInit
    /\ box = NoBox
    /\ conv \in [osmData : OsmResponses, done : {FALSE}, threw : {FALSE},
                  value : {NullObject}]
    /\ stats = Hidden

NextConv == Convert

ConvSpec == InitConv /\ [][NextConv]_vars

\* ------------------------------------------------------------------ claims

Last(seq) == seq[Len(seq)]

Keys(m) == {m[k].key : k \in 1 .. Len(m)}

\* The caller's step starts an invocation of query().
Starts(c) == call[c].pc = "idle" /\ call'[c].pc # "idle"

\* The caller's step is the continuation in which its request succeeds.
Succeeds(c) == call[c].pc = "request" /\ call'[c].pc = "returned"

\* C1 (Spec): a call throws 'All servers failed' only after it has attempted
\* every endpoint of the pool, and no call attempts an endpoint twice while
\* another endpoint is left untried.
C1_FailsOnlyAfterEveryEndpoint ==
    \A c \in Callers :
        LET tried == hist[c].tried
        IN  /\ call[c].pc = "threw" => Range(tried) = ServerIndexes
            /\ (\E j, k \in 1 .. Len(tried) : j # k /\ tried[j] = tried[k])
                   => Range(tried) = ServerIndexes

\* C2 (Spec): currentServerIndex is always a valid index into servers; a step
\* changes it only when a request succeeds, and a successful request sets it to
\* the index of the endpoint that answered; failed attempts, cache hits and
\* calls that throw leave it unchanged.
C2_IndexValidAndSetBySuccess ==
    /\ currentServerIndex \in ServerIndexes
    /\ [][/\ currentServerIndex' \in ServerIndexes
          /\ currentServerIndex' # currentServerIndex
                 => \E c \in Callers : Succeeds(c)
          /\ \A c \in Callers :
                 Succeeds(c) => currentServerIndex' = Last(hist[c].tried)]_vars

C2_Witness ==
    \E c \in Callers :
        /\ call[c].pc = "returned"
        /\ Len(hist[c].tried) = 3
        /\ currentServerIndex = 2
        /\ hist[c].fetched.server = 2

\* C3 (Spec): when the preferred endpoint fails and the next endpoint in
\* order succeeds, the call returns the payload of that endpoint's response,
\* and the next call that goes to the network, no other call having settled
\* in between, attempts that endpoint first.
C3_FailoverThenRotation ==
    [][\A c \in Callers :
        /\ (Succeeds(c) /\ lastDone'.failover)
               => /\ call'[c].result = JSONparse(hist'[c].fetched.response.body)
                  /\ hist'[c].fetched.server = Last(hist[c].tried)
                  /\ hist'[c].fetched.server =
                         (hist[c].startPref + 1) % Len(servers)
        /\ (Starts(c) /\ call'[c].pc = "request"
                /\ lastDone.kind = "ok" /\ lastDone.failover)
               => hist'[c].tried = <<lastDone.server>>]_vars

C3_Witness ==
    \E c \in Callers :
        /\ call[c].pc = "request"
        /\ lastDone.kind = "ok"
        /\ lastDone.failover
        /\ lastDone.server = 1
        /\ hist[c].tried = <<1>>

\* C4 (Spec): a call that runs with no other call in flight attempts the
\* endpoints p, p+1, ..., p+n-1 (mod n), p the preferred index when it was
\* called: each at most once, none out of that order, and none after the
\* first success.
C4_AloneCallFollowsRotation ==
    \A c \in Callers :
        LET tried == hist[c].tried
        IN  (hist[c].alone /\ tried # <<>>)
                => /\ Len(tried) <= Len(servers)
                   /\ \A k \in 1 .. Len(tried) :
                          tried[k] = (hist[c].startPref + k - 1) % Len(servers)
                   /\ call[c].pc = "returned"
                          => hist[c].fetched.server = Last(tried)

C4_Witness ==
    \E c \in Callers :
        /\ hist[c].alone
        /\ hist[c].startPref = 2
        /\ hist[c].tried = <<2, 0, 1>>
        /\ call[c].pc = "returned"

\* C5 (CacheSpec): after any sequence of set, get, cleanup and clear, the
\* cache holds at most maxSize entries.
C5_AtMostMaxSize == Len(cache) <= maxSize

C5_Witness == lastEvicted # NoValue /\ Len(cache) = maxSize

\* C6 (CacheSpec): a get of a query whose entry was set more than ttl ago
\* returns null, whether or not the entry has been served by a get since it
\* was set and whether or not the cleanup timer has fired since it expired.
C6_ExpiredNeverServed == ret.age > ttl => ret.value = JsNull

C6_Witness == ret.age > ttl /\ ret.touched /\ ret.expected # JsNull

\* C7 (SeqSpec): a call without bypassCache, made while the cache holds a
\* live entry for its query, returns the entry's data and attempts no
\* endpoint.
C7_LiveEntryIsReturned ==
    \A c \in Callers :
        (call[c].pc # "idle" /\ ~call[c].bypassCache /\ hist[c].found # NoValue)
            => /\ call[c].pc = "returned"
               /\ call[c].result = hist[c].found
               /\ hist[c].tried = <<>>

\* C8 (SeqSpec): a call without bypassCache that finds a live entry for its
\* query returns at once: no endpoint attempt, no backoff sleep, and
\* currentServerIndex and the set of cached keys stay as they were.
C8_HitHasNoOtherEffect ==
    [][\A c \in Callers :
        (Starts(c) /\ ~call'[c].bypassCache
             /\ LiveData(cache, call'[c].queryString, now) # NoValue)
            => /\ call'[c].pc = "returned"
               /\ hist'[c].tried = <<>>
               /\ call'[c].delay = 0
               /\ currentServerIndex' = currentServerIndex
               /\ Keys(cache') = Keys(cache)]_vars

\* C9 (CacheSpec): a get of a query within ttl of its last set, the entry
\* not having been evicted, swept, overwritten or cleared since, returns the
\* value that was set.
C9_GetReturnsWhatWasSet ==
    (ret.age >= 0 /\ ret.age <= ttl) => ret.value = ret.expected

C9_Witness == ret.age = ttl /\ ret.value = "elements:1" /\ Len(cache) = maxSize

\* C10 (SeqSpec): a call with bypassCache goes to the network even when the
\* cache holds a live entry for its query, none of its steps changes the
\* cache, and its success still sets currentServerIndex.
C10_BypassLeavesCacheAlone ==
    [][\A c \in Callers :
        /\ (Starts(c) /\ call'[c].bypassCache)
               => call'[c].pc = "request" /\ cache' = cache
        /\ (call[c].bypassCache /\ call'[c] # call[c])
               => /\ cache' = cache
                  /\ Succeeds(c) => currentServerIndex' = call[c].serverIndex]_vars

C10_Witness ==
    \E c \in Callers :
        /\ call[c].pc = "returned"
        /\ call[c].bypassCache
        /\ hist[c].found = "elements:0"
        /\ LiveData(cache, call[c].queryString, now) = "elements:0"
        /\ call[c].result = JsNull
        /\ currentServerIndex = 1

\* C11 (Spec): a call that throws carries the error its last attempt was
\* rejected with, whatever its earlier attempts were rejected with, and has
\* not called cache.set.
C11_ThrowsLastError ==
    \A c \in Callers :
        call[c].pc = "threw"
            => /\ Len(hist[c].errors) = Len(hist[c].tried)
               /\ call[c].thrown = Last(hist[c].errors)
               /\ ~hist[c].stored

C11_Witness ==
    \E c \in Callers :
        /\ call[c].pc = "threw"
        /\ hist[c].errors[1].text = "Request timeout"
        /\ Last(hist[c].errors).text = "HTTP"
        /\ call[c].thrown.status = 429
        /\ cache # <<>>

\* The bounding box of the arguments a is within the coordinate ranges and
\* strictly ordered.
BoxInDomain(a) ==
    /\ -LonLimit <= a.minLon /\ a.minLon <= LonLimit
    /\ -LonLimit <= a.maxLon /\ a.maxLon <= LonLimit
    /\ -LatLimit <= a.minLat /\ a.minLat <= LatLimit
    /\ -LatLimit <= a.maxLat /\ a.maxLat <= LatLimit
    /\ a.minLon < a.maxLon
    /\ a.minLat < a.maxLat

\* The step is a call of get_buildings.
ToolCalled == tool.pc # "querying" /\ tool' # tool

\* C12 (ToolSpec): a get_buildings call whose bounding box is out of range,
\* inverted or empty throws before its query is built: no request is issued,
\* no call of query() is made, the cache and currentServerIndex stay as they
\* were; a call whose bounding box is valid and larger than maxArea (and whose
\* building type is allowed) carries the warning and goes on to query().
C12_FatalBoxStopsBeforeQuery ==
    [][ToolCalled =>
        /\ ~BoxInDomain(tool'.args)
               => /\ tool'.pc = "rejected"
                  /\ tool'.error[1] = "Invalid bounding box"
                  /\ UNCHANGED <<call, hist, cache, currentServerIndex, started>>
        /\ (/\ BoxInDomain(tool'.args)
            /\ (tool'.args.maxLon - tool'.args.minLon)
                   * (tool'.args.maxLat - tool'.args.minLat) > maxArea
            /\ tool'.args.building_type \in {Undefined, <<"residential">>})
               => /\ tool'.pc = "querying"
                  /\ tool'.warnings # <<>>
                  /\ call'["a"].pc \in {"request", "returned"}
                  /\ call'["a"].queryString = tool'.queryString
                  /\ started' = started + 1]_vars

\* A rejected call, made after a call with the large bounding box has gone
\* to the second endpoint and stored its response.
C12_Witness ==
    /\ tool.pc = "rejected"
    /\ tool.args.maxLon > LonLimit
    /\ currentServerIndex = 1
    /\ \E n \in 1 .. Len(cache) :
           cache[n].key = generateKey(
               BuildingsQuery("[\"building\"]", 0, 0, 5, 5, "out body;"))

\* C13 (ToolSpec): a get_buildings call with a limit below limitMinimum or
\* above limitMaximum is rejected and makes no call of query(); a call with a
\* limit inside the range that goes on to query() has 'out body <limit>;' as
\* its output statement.
C13_LimitCheckedAndApplied ==
    (tool.pc # "idle" /\ tool.args.limit # Undefined)
        => IF tool.args.limit[1] < limitMinimum \/ tool.args.limit[1] > limitMaximum
           THEN tool.pc = "rejected"
           ELSE tool.pc # "rejected"
                    => tool.outStatement
                           = "out body " \o ToString(tool.args.limit[1]) \o ";"

\* C14 (BoxSpec): validateBoundingBox returns no error exactly when both
\* longitudes are within [-180, 180], both latitudes within [-90, 90],
\* minLon < maxLon and minLat < maxLat; an empty or inverted box is reported,
\* and the errors name exactly the coordinates that are out of range.
C14_NoErrorIffInDomain ==
    box.done =>
        LET a == [minLon |-> box.args[1], minLat |-> box.args[2],
                  maxLon |-> box.args[3], maxLat |-> box.args[4]]
            named(field) == \E k \in 1 .. Len(box.errors) :
                box.errors[k] \in
                    {field \o " must be a number between -180 and 180",
                     field \o " must be a number between -90 and 90"}
        IN  /\ box.errors = <<>> <=> BoxInDomain(a)
            /\ (a.minLon >= a.maxLon \/ a.minLat >= a.maxLat) => box.errors # <<>>
            /\ named("minLon") <=> (a.minLon < -LonLimit \/ a.minLon > LonLimit)
            /\ named("maxLon") <=> (a.maxLon < -LonLimit \/ a.maxLon > LonLimit)
            /\ named("minLat") <=> (a.minLat < -LatLimit \/ a.minLat > LatLimit)
            /\ named("maxLat") <=> (a.maxLat < -LatLimit \/ a.maxLat > LatLimit)

\* An empty box whose corners are at the ends of the valid ranges.
C14_Witness ==
    /\ box.done
    /\ box.args = <<LonLimit, -LatLimit, LonLimit, LatLimit>>
    /\ box.errors = <<"minLon must be less than maxLon">>

\* The coordinate pair [x, y].
Coord(x, y) == <<(<<x>>), (<<y>>)>>

\* The element list converted, when the response has one without null entry.
Converted ==
    IF conv.done /\ conv.osmData # NullObject /\ ~conv.threw
          /\ conv.osmData.elements # Undefined
    THEN conv.osmData.elements[1]
    ELSE <<>>

\* The features emitted with the given id.
FeaturesWithId(id) == SelectSeq(conv.value.features, LAMBDA f : f.id = id)

\* The coordinates of the node ids that are ids of nodes in the element list.
RECURSIVE Resolved(_, _)
Resolved(elements, ids) ==
    IF ids = <<>> THEN <<>>
    ELSE LET here == {k \in 1 .. Len(elements) :
                         elements[k].type = "node" /\ elements[k].id = ids[1]}
         IN  (IF here = {} THEN <<>>
              ELSE LET k == CHOOSE j \in here : TRUE
                   IN  <<(<<elements[k].lon, elements[k].lat>>)>>)
             \o Resolved(elements, Tail(ids))

\* C15 (ConvSpec): a way of which at least one node id resolves yields exactly
\* one feature; it is a Polygon with the resolved coordinates as its only
\* ring exactly when the way's first and last node ids are equal and at least
\* four coordinates resolved, and a LineString of the resolved coordinates
\* otherwise; a way of which no node id resolves yields no feature.
C15_WayPolygonIffClosedWithFour ==
    \A k \in 1 .. Len(Converted) :
        LET e == Converted[k]
            ids == IF e.nodes = Undefined THEN <<>> ELSE e.nodes[1]
            coords == Resolved(Converted, ids)
            fs == FeaturesWithId("way/" \o ToString(e.id))
        IN  e.type = "way" =>
                IF coords = <<>>
                THEN fs = <<>>
                ELSE /\ Len(fs) = 1
                     /\ fs[1].geometry.type \in {"Polygon", "LineString"}
                     /\ fs[1].geometry.type = "Polygon"
                            <=> (ids[1] = ids[Len(ids)] /\ Len(coords) >= 4)
                     /\ fs[1].geometry.type = "Polygon"
                            => fs[1].geometry.coordinates = <<coords>>
                     /\ fs[1].geometry.type = "LineString"
                            => fs[1].geometry.coordinates = coords

\* A closed way with an unresolved node id and five resolved coordinates,
\* converted to a Polygon, the nodes coming after it in the list.
C15_Witness ==
    /\ Converted # <<>>
    /\ Converted[1].type = "way"
    /\ Converted[1].nodes = <<(<<1, 2, 9, 3, 4, 1>>)>>
    /\ FeaturesWithId("way/10") # <<>>
    /\ FeaturesWithId("way/10")[1].geometry =
           [type |-> "Polygon",
            coordinates |-> <<(<<Coord(0, 0), Coord(1, 0), Coord(1, 1),
                                 Coord(0, 1), Coord(0, 0)>>)>>]

\* The element list of the end-to-end scenario.
ScenarioElements ==
    <<NodeAt(1), NodeAt(2), NodeAt(3), NodeAt(4),
      Element("way", 10, Undefined, Undefined, <<(<<1, 2, 3, 4, 1>>)>>,
              <<[building |-> "yes"]>>, Undefined)>>

ScenarioFeature ==
    [type |-> "Feature", id |-> "way/10", properties |-> [building |-> "yes"],
     geometry |-> [type |-> "Polygon",
                   coordinates |-> <<(<<Coord(0, 0), Coord(1, 0), Coord(1, 1),
                                        Coord(0, 1), Coord(0, 0)>>)>>]]

\* C16 as claimed (ConvSpec): the scenario's element list converts to a
\* FeatureCollection whose only feature is the Polygon of way 10.
C16_ScenarioYieldsOneFeature ==
    (conv.done /\ conv.osmData = [elements |-> <<ScenarioElements>>])
        => /\ ~conv.threw
           /\ conv.value = FeatureCollection(<<ScenarioFeature>>)

\* C16 as amended (ConvSpec): the scenario's element list converts to a
\* FeatureCollection of five features: the Points node/1 .. node/4 with
\* empty properties, in list order, then the Polygon of way 10, which is the
\* only feature of the way.
C16_ScenarioYieldsPointsAndPolygon ==
    (conv.done /\ conv.osmData = [elements |-> <<ScenarioElements>>])
        => /\ ~conv.threw
           /\ conv.value.type = "FeatureCollection"
           /\ Len(conv.value.features) = 5
           /\ \A i \in 1 .. 4 :
                  conv.value.features[i] =
                      [type |-> "Feature", id |-> "node/" \o ToString(i),
                       properties |-> EmptyObject,
                       geometry |-> [type |-> "Point",
                                     coordinates |->
                                         <<ScenarioElements[i].lon,
                                           ScenarioElements[i].lat>>]]
           /\ conv.value.features[5] = ScenarioFeature

C16_Witness ==
    /\ conv.done
    /\ conv.osmData = [elements |-> <<ScenarioElements>>]
    /\ Len(conv.value.features) = 5

\* C17 (ConvSpec): a multipolygon relation whose members refer to the closed
\* way 10 (outer, five coordinates) and the closed way 11 (inner, four
\* coordinates), both in the element list with all their nodes, yields one
\* feature for the relation, a Polygon of the outer ring then the inner ring.
C17_MultipolygonByReference ==
    \A k \in 1 .. Len(Converted) :
        LET e == Converted[k]
            has(w) == \E j \in 1 .. Len(Converted) : Converted[j] = w
        IN  (/\ e.type = "relation"
             /\ e.tags = <<[type |-> "multipolygon"]>>
             /\ e.members = <<(<<Member("way", 10, "outer", Undefined),
                                 Member("way", 11, "inner", Undefined)>>)>>
             /\ \E t \in {Undefined, <<[building |-> "yes"]>>} :
                    has(Element("way", 10, Undefined, Undefined,
                                <<(<<1, 2, 3, 4, 1>>)>>, t, Undefined))
             /\ has(Element("way", 11, Undefined, Undefined,
                            <<(<<1, 2, 3, 1>>)>>, Undefined, Undefined))
             /\ \A i \in 1 .. 4 : has(NodeAt(i)))
            => /\ Len(FeaturesWithId("relation/30")) = 1
               /\ FeaturesWithId("relation/30")[1].geometry =
                      [type |-> "Polygon",
                       coordinates |->
                           <<(<<Coord(0, 0), Coord(1, 0), Coord(1, 1),
                                Coord(0, 1), Coord(0, 0)>>),
                             (<<Coord(0, 0), Coord(1, 0), Coord(1, 1),
                                Coord(0, 0)>>)>>]

\* C18 (ConvSpec): osmToGeoJSON returns a FeatureCollection for every
\* response and never throws.
C18_NeverThrows ==
    conv.done => /\ ~conv.threw
                 /\ conv.value.type = "FeatureCollection"

\* C19 (CacheSpec): destroy() leaves the cache empty and the timer cancelled
\* with no callback pending; once the timer is cancelled it stays cancelled
\* and no sweep fires, whatever is set or read later; a further destroy()
\* leaves the timer state as it is and the cache empty.
C19_DestroyStopsSweep ==
    [][/\ lastOp'.name = "destroy"
              => cache' = <<>> /\ cleanupTimer' = "null" /\ ~sweepDue'
       /\ cleanupTimer = "null"
              => /\ cleanupTimer' = "null"
                 /\ ~sweepDue'
                 /\ lastOp'.name # "sweep"
       /\ (cleanupTimer = "null" /\ lastOp'.name = "destroy")
              => /\ cache' = <<>>
                 /\ UNCHANGED <<cleanupTimer, sweepDue, now, currentServerIndex>>]_vars

\* After destroy() an entry was set and has outlived its ttl, several
\* cleanup intervals having passed, and is still resident.
C19_Witness ==
    /\ cleanupTimer = "null"
    /\ ~sweepDue
    /\ \E n \in 1 .. Len(cache) : now - cache[n].timestamp > ttl

\* The entry of key k in the Map m.
EntryOf(m, k) == m[CHOOSE n \in 1 .. Len(m) : m[n].key = k]

\* C20 (CacheSpec): set(q, v) removes an entry exactly when q is not resident
\* and the cache holds maxSize entries; it then removes one entry, whose
\* lastAccessed is the least of all resident entries; when q is resident the
\* keys stay as they are; in every case q is resident afterwards with v.
C20_EvictsLeastRecentlyAccessed ==
    [][lastOp'.name = "set" =>
        LET key == generateKey(lastOp'.query)
            evicted == Keys(cache) \ Keys(cache')
        IN  /\ evicted # {} <=> (key \notin Keys(cache) /\ Len(cache) >= maxSize)
            /\ Cardinality(evicted) <= 1
            /\ \A k \in evicted : \A n \in 1 .. Len(cache) :
                   EntryOf(cache, k).lastAccessed <= cache[n].lastAccessed
            /\ key \in Keys(cache)
                   => Keys(cache') = Keys(cache) /\ Len(cache') = Len(cache)
            /\ Keys(cache') = (Keys(cache) \ evicted) \cup {key}
            /\ EntryOf(cache', key).data = lastSet'[lastOp'.query].value]_vars

\* A set has evicted an entry while the entry with the oldest timestamp,
\* accessed since, is still resident.
C20_Witness ==
    /\ lastOp.name = "set"
    /\ lastEvicted # NoValue
    /\ Len(cache) = maxSize
    /\ cache[1].timestamp = 0
    /\ cache[1].lastAccessed > 0
    /\ cache[2].timestamp = now
    /\ cache[1].lastAccessed < now

\* The Map holds an entry for the query that was stored at time t.
Resident(query, t) ==
    \E n \in 1 .. Len(cache) :
        cache[n].key = generateKey(query) /\ cache[n].timestamp = t

\* C21 (SweepSpec): a firing of the cleanup timer removes every entry
\* with now - timestamp > ttl and keeps every entry with
\* now - timestamp <= ttl; and an entry stored early enough for the clock to
\* pass its ttl is eventually gone from the Map, unless the cache has been
\* destroyed, whether or not anything looks it up.
C21_SweepRemovesExpired ==
    /\ [][lastOp'.name = "sweep" =>
            /\ \A e \in Range(cache) :
                   (now - e.timestamp > ttl) <=> (e \notin Range(cache'))
            /\ Range(cache') \subseteq Range(cache)]_vars
    /\ \A q \in Queries, t \in 0 .. (MaxTime - ttl - 1) :
           Resident(q, t) ~> (~Resident(q, t) \/ cleanupTimer = "null")

\* A firing of the timer has removed an entry and kept another.
C21_Witness ==
    /\ lastOp.name = "sweep"
    /\ lastSwept # {}
    /\ cache # <<>>
    /\ cleanupTimer = "active"

\* C22 (Spec): calls of query() are not coalesced: a call that found no entry
\* for its query when it started stores its response even when a concurrent
\* call has stored one for the same query meanwhile; after the store the Map
\* has exactly one entry for the query, holding the response of the call that
\* stored last, and no more than maxSize entries.
C22_SecondStoreOverwrites ==
    [][\A c \in Callers :
          (Succeeds(c) /\ ~call[c].bypassCache) =>
              LET key == generateKey(call[c].queryString)
              IN  /\ Cardinality({n \in 1 .. Len(cache') : cache'[n].key = key}) = 1
                  /\ EntryOf(cache', key).data = call'[c].result
                  /\ Len(cache') <= maxSize
                  /\ Len(cache') = IF MapHas(cache, key) \/ Len(cache) = maxSize
                                   THEN Len(cache) ELSE Len(cache) + 1]_vars

\* Caller b found nothing for its query when it started, another call was in
\* flight during its own, an endpoint answered it, and when it stored the
\* response the Map already had an entry for the query; the Map has the one
\* entry, with the response of b.
C22_Witness ==
    /\ call["b"].pc = "returned"
    /\ ~call["b"].bypassCache
    /\ hist["b"].found = NoValue
    /\ ~hist["b"].alone
    /\ hist["b"].fetched # NoFetch
    /\ hist["b"].overwrote
    /\ call["b"].result = "elements:0"
    /\ Len(cache) = 1
    /\ cache[1].data = "elements:0"

\* The caller's invocation is in a backoff sleep.
Sleeping(c) == call[c].pc = "sleep"

\* The error the latest failed attempt of the caller's invocation was
\* rejected with.
LatestError(c) == Last(hist[c].errors)

\* The caller's step is the catch block of its invocation: the attempt of
\* loop iteration call[c].i has failed.
Fails(c) ==
    call[c].pc = "request" /\ Len(hist'[c].errors) = Len(hist[c].errors) + 1

\* The error that attempt was rejected with.
Caught(c) == Last(hist'[c].errors)

\* C23 (ErrSpec): after an attempt at index i that failed with HTTP 429,
\* query() sleeps min(5000 * 2^i, 30000) ms; over the indexes 0 .. MaxIndex
\* that delay starts at 5000, doubles from one index to the next until the
\* cap, never decreases and never exceeds 30000.
C23_RateLimitBackoff ==
    /\ [][\A c \in Callers :
             (Fails(c) /\ Caught(c).text = "HTTP" /\ Caught(c).status = 429)
                 => /\ call'[c].pc = "sleep"
                    /\ call'[c].i = call[c].i
                    /\ call'[c].delay = Min(5000 * (2 ^ call[c].i), 30000)
                    /\ call'[c].delay <= 30000]_vars
    /\ BackoffTime(0) = 5000
    /\ \A i \in 0 .. MaxIndex :
           /\ BackoffTime(i) <= 30000
           /\ BackoffTime(i + 1) >= BackoffTime(i)
           /\ BackoffTime(i + 1) = Min(2 * BackoffTime(i), 30000)

\* The third attempt of a call was answered with HTTP 429 and the call
\* sleeps 20000 ms.
C23_Witness ==
    /\ Sleeping("a")
    /\ LatestError("a").status = 429
    /\ LatestError("a").detail = ""
    /\ Len(hist["a"].errors) = 3
    /\ call["a"].i = 2
    /\ call["a"].delay = 20000

\* C24 (ErrSpec): after an attempt that failed with an HTTP status 5xx,
\* query() sleeps the fixed 2000 ms and not the exponential delay.
C24_ServerErrorFixedDelay ==
    [][\A c \in Callers :
          (Fails(c) /\ Caught(c).text = "HTTP" /\ Caught(c).status \in 500 .. 599)
              => /\ call'[c].pc = "sleep"
                 /\ call'[c].delay = ServerErrorDelay]_vars

\* C25 (ErrSpec): after an attempt that failed with a transport error or
\* with a response of status 200 that does not parse, query() does not sleep,
\* whatever the body or the message says.
C25_TransportAndParseErrorsNoDelay ==
    [][\A c \in Callers :
          (Fails(c) /\ Caught(c).text \in {"Request timeout", "connect ECONNREFUSED",
                                            "Failed to parse response"})
              => /\ call'[c].pc # "sleep"
                 /\ call'[c].delay = 0]_vars

\* C26 (ErrSpec): query() sleeps only between two attempts: no call sleeps
\* after the failure of the last endpoint of its attempt order, and the
\* continuation after a sleep issues the next request.
C26_NoSleepAfterLastEndpoint ==
    /\ \A c \in Callers : Sleeping(c) => call[c].i < Len(servers) - 1
    /\ [][\A c \in Callers :
             (Sleeping(c) /\ call'[c] # call[c]) => call'[c].pc = "request"]_vars

\* The resolved coordinates of each member: those of the node ids a member
\* way carries, none for any other member.
MemberRings(elements, members) ==
    [k \in 1 .. Len(members) |->
        IF members[k].type = "way" /\ members[k].nodes # Undefined
        THEN Resolved(elements, members[k].nodes[1])
        ELSE <<>>]

\* The rings of the member ways of one role that have at least 4 resolved
\* coordinates, in member order.
CountedRings(elements, members, role) ==
    LET rings == MemberRings(elements, members)
        ks == SelectSeq([k \in 1 .. Len(members) |-> k],
                        LAMBDA k : members[k].role = role /\ Len(rings[k]) >= 4)
    IN  [j \in 1 .. Len(ks) |-> rings[ks[j]]]

BoundaryNotMultipolygon(e) ==
    /\ e.type = "relation"
    /\ e.tags # Undefined
    /\ "boundary" \in DOMAIN e.tags[1]
    /\ ~(/\ "type" \in DOMAIN e.tags[1]
          /\ e.tags[1]["type"] = "multipolygon"
          /\ e.members # Undefined
          /\ CountedRings(Converted, e.members[1], "outer") # <<>>)

\* The relation yields one feature, a LineString of the coordinates, when
\* there are at least 2 of them, and no feature otherwise.
LineStringIffTwo(e, coordinates) ==
    LET fs == FeaturesWithId("relation/" \o ToString(e.id))
    IN  IF Len(coordinates) >= 2
        THEN /\ Len(fs) = 1
             /\ fs[1].geometry = [type |-> "LineString", coordinates |-> coordinates]
        ELSE fs = <<>>

C29_WayPolygonsClosed ==
    \A k \in 1 .. Len(Converted) :
        LET fs == FeaturesWithId("way/" \o ToString(Converted[k].id))
        IN  Converted[k].type = "way" =>
                \A j \in 1 .. Len(fs) :
                    fs[j].geometry.type = "Polygon" =>
                        LET ring == fs[j].geometry.coordinates[1]
                        IN  ring[1] = ring[Len(ring)]

\* C30 (LoggedSpec): cacheHits + cacheMisses counts the calls of query()
\* made without bypassCache, and the hit rate getStats reports is between 0%
\* and 100%.
C30_TelemetryConsistent ==
    /\ stats.cacheHits + stats.cacheMisses = 0
    /\ [][(stats'.cacheHits + stats'.cacheMisses)
              - (stats.cacheHits + stats.cacheMisses)
          = IF \E c \in Callers : Starts(c) /\ ~call'[c].bypassCache
            THEN 1 ELSE 0]_vars
    /\ [](0 <= hitRate(stats) /\ hitRate(stats) <= 1000)

====
